---- MODULE Spec2Model ----
(***************************************************************************)
(* A model of src/app.py: the Flask handler plot_stock, the process-wide   *)
(* pyplot figure registry it draws through, and the indicator columns it   *)
(* derives from the downloaded price series.                               *)
(*                                                                         *)
(* Spec     two invocations of plot_stock served by waitress threads       *)
(*          (src/app.py:183-184), interleaved at the granularity of the    *)
(*          pyplot / zipfile calls.                                        *)
(* SpecInd  the indicator arithmetic of one invocation on short series.    *)
(* SpecMA   the same arithmetic on series long enough for the 50 and 200   *)
(*          row windows.                                                   *)
(***************************************************************************)
EXTENDS Integers, Sequences, FiniteSets, TLC

VARIABLES
    \* ---- handler state, one entry per invocation --------------------
    pc,         \* position of each invocation in plot_stock
    req,        \* the request each invocation received
    ticker,     \* whether the local name `ticker` is bound (line 52)
    plot,       \* index of the plot block being executed, 1..7
    cols,       \* columns present in the invocation's stock_data frame
    zip,        \* entries written to zip_file so far
    zipClosed,  \* ZipFile.__exit__ has run
    failed,     \* the step at which an exception was raised, or "none"
    resp,       \* the response handed back to the caller
    crossed,    \* history: the invocation saved or closed a figure that
                \* another invocation opened or drew on
    \* ---- process-wide pyplot state -----------------------------------
    figs,       \* pyplot's ordered figure registry; the last one is current
    \* ---- indicator state of one invocation ----------------------------
    stock_data, \* the DataFrame: column name -> sequence of row values
    delta,      \* the local series of the RSI block (lines 158-162)
    gain,
    loss,
    rs,
    rsi,
    ipc         \* position in the sequence of column computations

hvars == <<pc, req, ticker, plot, cols, zip, zipClosed, failed, resp,
           crossed, figs>>
ivars == <<stock_data, delta, gain, loss, rs, rsi, ipc>>
vars == <<hvars, ivars>>

----------------------------------------------------------------------------
(* The handler.                                                            *)

\* The invocations that run concurrently.
Callers == {1, 2}

\* The archive entry names, in the order the plot blocks write them.
PlotNames ==
    << "market_cap.png", "moving_average.png", "volatility.png",
       "stock_price.png", "trading_volume.png", "bollinger_bands.png",
       "rsi.png" >>

NumPlots == Len(PlotNames)

\* The fifth block reusing the fourth block's entry name.
PlotNameReused(p) == IF p = 5 THEN PlotNames[4] ELSE PlotNames[p]

PlotName(p) == PlotNames[p]

\* The columns each plot block assigns to stock_data before plotting.
PlotColumns(p) ==
    CASE p = 1 -> {"MarketCap"}
      [] p = 2 -> {"MA50", "MA200"}
      [] p = 3 -> {"returns"}
      [] p = 6 -> {"UpperBand", "LowerBand"}
      [] OTHER -> {}

\* The columns yf.download delivers.
BaseColumns == {"Open", "High", "Low", "Close", "Volume"}

\* Request bodies: JSON or not, with or without "ticker", with or without
\* both dates, and whether the provider has rows for the range.
Requests ==
    [json : BOOLEAN, ticker : BOOLEAN, dates : BOOLEAN, empty : BOOLEAN]

NoResp == [status |-> 0, kind |-> "none", body |-> <<>>]

\* Steps executed inside `with zipfile.ZipFile(...)`.
InZip == {"figure", "compute", "draw", "savefig", "close", "writestr"}
\* Steps of the try body that can raise whatever the request is.
CanRaise == InZip \cup {"download", "send"}

\* pyplot: the current figure is the most recently activated one.
Current == figs[Len(figs)]

\* pyplot.gcf(): the current figure, created on demand when none exists.
Gcf(i) == IF figs = <<>> THEN <<[owner |-> i, drawn |-> {}]>> ELSE figs

InitH ==
    /\ pc = [i \in Callers |-> "request_json"]
    /\ req \in [Callers -> Requests]
    /\ ticker = [i \in Callers |-> FALSE]
    /\ plot = [i \in Callers |-> 0]
    /\ cols = [i \in Callers |-> {}]
    /\ zip = [i \in Callers |-> <<>>]
    /\ zipClosed = [i \in Callers |-> FALSE]
    /\ failed = [i \in Callers |-> "none"]
    /\ resp = [i \in Callers |-> NoResp]
    /\ crossed = [i \in Callers |-> FALSE]
    /\ figs = <<>>

IdleI ==
    /\ stock_data = [c \in {} |-> <<>>]
    /\ delta = <<>>
    /\ gain = <<>>
    /\ loss = <<>>
    /\ rs = <<>>
    /\ rsi = <<>>
    /\ ipc = "idle"

\* line 51: data = request.json.  Without a JSON body Flask either raises
\* (415 / 400, newer releases) or yields None (older releases).
RequestJson(i) ==
    /\ pc[i] = "request_json"
    /\ \/ /\ pc' = [pc EXCEPT ![i] = "ticker"]
          /\ UNCHANGED failed
       \/ /\ ~req[i].json
          /\ pc' = [pc EXCEPT ![i] = "except"]
          /\ failed' = [failed EXCEPT ![i] = "request_json"]
    /\ UNCHANGED <<req, ticker, plot, cols, zip, zipClosed, resp,
                   crossed, figs, ivars>>

\* line 52: ticker = data["ticker"]; TypeError on None, KeyError on a body
\* without the field.
GetTicker(i) ==
    /\ pc[i] = "ticker"
    /\ IF req[i].json /\ req[i].ticker
       THEN /\ ticker' = [ticker EXCEPT ![i] = TRUE]
            /\ pc' = [pc EXCEPT ![i] = "dates"]
            /\ UNCHANGED failed
       ELSE /\ pc' = [pc EXCEPT ![i] = "except"]
            /\ failed' = [failed EXCEPT ![i] = "ticker"]
            /\ UNCHANGED ticker
    /\ UNCHANGED <<req, plot, cols, zip, zipClosed, resp, crossed,
                   figs, ivars>>

\* lines 53-61: the dates, and the early 400 when one is missing.
CheckDates(i) ==
    /\ pc[i] = "dates"
    /\ IF req[i].dates
       THEN /\ pc' = [pc EXCEPT ![i] = "download"]
            /\ UNCHANGED resp
       ELSE /\ pc' = [pc EXCEPT ![i] = "done"]
            /\ resp' = [resp EXCEPT ![i] =
                          [status |-> 400, kind |-> "json", body |-> <<>>]]
    /\ UNCHANGED <<req, ticker, plot, cols, zip, zipClosed, failed,
                   crossed, figs, ivars>>

\* lines 63-66: yf.download, then the archive is opened on zip_buffer.
\* No check of the frame's length follows.
Download(i) ==
    /\ pc[i] = "download"
    /\ cols' = [cols EXCEPT ![i] = BaseColumns]
    /\ plot' = [plot EXCEPT ![i] = 1]
    /\ pc' = [pc EXCEPT ![i] = "figure"]
    /\ UNCHANGED <<req, ticker, zip, zipClosed, failed, resp, crossed,
                   figs, ivars>>

\* plt.figure(): a new figure is registered and becomes current.
Figure(i) ==
    /\ pc[i] = "figure"
    /\ figs' = Append(figs, [owner |-> i, drawn |-> {}])
    /\ pc' = [pc EXCEPT ![i] = "compute"]
    /\ UNCHANGED <<req, ticker, plot, cols, zip, zipClosed, failed,
                   resp, crossed, ivars>>

\* The column assignments of the plot block (lines 70, 82-83, 98-100,
\* 138-143).
Compute(i) ==
    /\ pc[i] = "compute"
    /\ cols' = [cols EXCEPT ![i] = @ \cup PlotColumns(plot[i])]
    /\ pc' = [pc EXCEPT ![i] = "draw"]
    /\ UNCHANGED <<req, ticker, plot, zip, zipClosed, failed, resp,
                   crossed, figs, ivars>>

\* Series.plot / Series.hist / plt.title / plt.legend: pandas draws on
\* pyplot's current figure (plt.gca()), whichever invocation opened it.
\* The block's drawing calls are taken as one step; splitting them only
\* adds interleavings.
Draw(i) ==
    /\ pc[i] = "draw"
    /\ LET g == Gcf(i)
           n == Len(g)
       IN figs' = [g EXCEPT ![n].drawn = @ \cup {i}]
    /\ pc' = [pc EXCEPT ![i] = "savefig"]
    /\ UNCHANGED <<req, ticker, plot, cols, zip, zipClosed, failed,
                   resp, crossed, ivars>>

\* A figure that another invocation opened or drew on.
Foreign(i, f) == f.owner # i \/ ~(f.drawn \subseteq {i})

\* plt.savefig(buffer): pyplot's current figure is written to the buffer.
SaveFig(i) ==
    /\ pc[i] = "savefig"
    /\ LET g == Gcf(i)
       IN /\ figs' = g
          /\ crossed' = [crossed EXCEPT ![i] = @ \/ Foreign(i, g[Len(g)])]
    /\ pc' = [pc EXCEPT ![i] = "close"]
    /\ UNCHANGED <<req, ticker, plot, cols, zip, zipClosed, failed, resp,
                   ivars>>

\* plt.close(): pyplot's current figure is destroyed, if there is one.
Close(i) ==
    /\ pc[i] = "close"
    /\ IF figs = <<>>
       THEN UNCHANGED <<figs, crossed>>
       ELSE /\ figs' = SubSeq(figs, 1, Len(figs) - 1)
            /\ crossed' = [crossed EXCEPT ![i] = @ \/ Foreign(i, Current)]
    /\ pc' = [pc EXCEPT ![i] = "writestr"]
    /\ UNCHANGED <<req, ticker, plot, cols, zip, zipClosed, failed, resp,
                   ivars>>

\* buffer.seek(0); zip_file.writestr(name, buffer.getvalue()); after the
\* seventh block the with statement closes the archive (lines 167-169).
WriteStr(i) ==
    /\ pc[i] = "writestr"
    /\ zip' = [zip EXCEPT ![i] = Append(@, PlotName(plot[i]))]
    /\ IF plot[i] < NumPlots
       THEN /\ plot' = [plot EXCEPT ![i] = @ + 1]
            /\ pc' = [pc EXCEPT ![i] = "figure"]
            /\ UNCHANGED zipClosed
       ELSE /\ pc' = [pc EXCEPT ![i] = "send"]
            /\ zipClosed' = [zipClosed EXCEPT ![i] = TRUE]
            /\ UNCHANGED plot
    /\ UNCHANGED <<req, ticker, cols, failed, resp, crossed, figs, ivars>>

\* lines 169-176: the archive is returned.
SendFile(i) ==
    /\ pc[i] = "send"
    /\ resp' = [resp EXCEPT ![i] =
                  [status |-> 200, kind |-> "zip", body |-> zip[i]]]
    /\ pc' = [pc EXCEPT ![i] = "done"]
    /\ UNCHANGED <<req, ticker, plot, cols, zip, zipClosed, failed,
                   crossed, figs, ivars>>

\* A step of the try body raises (provider failure, a plot of data that
\* cannot be drawn, an encoder error, ...).  Inside the with statement
\* ZipFile.__exit__ closes the archive on the way out; nothing closes the
\* figure.
Raise(i) ==
    /\ pc[i] \in CanRaise
    /\ failed' = [failed EXCEPT ![i] = pc[i]]
    /\ zipClosed' = [zipClosed EXCEPT ![i] = @ \/ pc[i] \in InZip]
    /\ pc' = [pc EXCEPT ![i] = "except"]
    /\ UNCHANGED <<req, ticker, plot, cols, zip, resp, crossed, figs,
                   ivars>>

\* An except clause that hands back what zip_buffer holds.
PartialArchiveResponse(i) == [status |-> 200, kind |-> "zip", body |-> zip[i]]

\* The response the except clause builds when it completes.
ErrorResponse(i) == [status |-> 400, kind |-> "json", body |-> <<>>]

\* lines 178-180: the f-string reads `ticker`; when the exception came
\* before line 52 completed the name is unbound, the handler itself raises
\* UnboundLocalError and Flask answers 500.
Except(i) ==
    /\ pc[i] = "except"
    /\ resp' = [resp EXCEPT ![i] =
                  IF ticker[i]
                  THEN ErrorResponse(i)
                  ELSE [status |-> 500, kind |-> "unhandled",
                        body |-> <<>>]]
    /\ pc' = [pc EXCEPT ![i] = "done"]
    /\ UNCHANGED <<req, ticker, plot, cols, zip, zipClosed, failed,
                   crossed, figs, ivars>>

----------------------------------------------------------------------------
(* The indicator arithmetic.  pandas computes in IEEE doubles; the model   *)
(* computes the same expressions exactly, keeping the IEEE special values: *)
(* a cell is NaN, +inf/-inf, or the rational n/d (d > 0).  The Bollinger   *)
(* bands need a square root and are kept as (a + b*sqrt(c))/d.             *)

NaN == [k |-> "nan", n |-> 0, d |-> 1]
Inf(sgn) == [k |-> "inf", n |-> sgn, d |-> 1]
Num(n, d) == [k |-> "num", n |-> n, d |-> d]

IsNum(x) == x.k = "num"
Sign(m) == IF m > 0 THEN 1 ELSE IF m < 0 THEN -1 ELSE 0

\* Comparisons of cells; as in IEEE every comparison with NaN is false.
Lt(x, y) ==
    CASE x.k = "nan" \/ y.k = "nan" -> FALSE
      [] x.k = "inf" /\ y.k = "inf" -> x.n < y.n
      [] x.k = "inf" -> x.n < 0
      [] y.k = "inf" -> y.n > 0
      [] OTHER -> x.n * y.d < y.n * x.d
Gt(x, y) == Lt(y, x)
Eq(x, y) ==
    CASE x.k = "nan" \/ y.k = "nan" -> FALSE
      [] x.k = "inf" \/ y.k = "inf" -> x.k = y.k /\ x.n = y.n
      [] OTHER -> x.n * y.d = y.n * x.d
Le(x, y) == Lt(x, y) \/ Eq(x, y)

Neg(x) == [x EXCEPT !.n = -x.n]

Add(x, y) ==
    CASE x.k = "nan" \/ y.k = "nan" -> NaN
      [] x.k = "inf" /\ y.k = "inf" -> IF x.n = y.n THEN x ELSE NaN
      [] x.k = "inf" -> x
      [] y.k = "inf" -> y
      [] OTHER -> Num(x.n * y.d + y.n * x.d, x.d * y.d)

Sub(x, y) == Add(x, Neg(y))

Mul(x, y) ==
    CASE x.k = "nan" \/ y.k = "nan" -> NaN
      [] x.k = "inf" \/ y.k = "inf" ->
            IF x.n = 0 \/ y.n = 0 THEN NaN ELSE Inf(Sign(x.n) * Sign(y.n))
      [] OTHER -> Num(x.n * y.n, x.d * y.d)

\* The division that would yield NaN for every zero divisor.
DivZeroIsNaN(x, y) ==
    CASE x.k = "nan" \/ y.k = "nan" -> NaN
      [] x.k = "inf" /\ y.k = "inf" -> NaN
      [] x.k = "inf" -> Inf(x.n * (IF y.n < 0 THEN -1 ELSE 1))
      [] y.k = "inf" -> Num(0, 1)
      [] y.n = 0 -> NaN
      [] y.n < 0 -> Num(-(x.n * y.d), x.d * (-y.n))
      [] OTHER -> Num(x.n * y.d, x.d * y.n)

\* Series / Series: numpy float division, which raises nothing: x/0 is
\* +inf or -inf for x # 0 and NaN for x = 0.
Div(x, y) ==
    CASE x.k = "nan" \/ y.k = "nan" -> NaN
      [] x.k = "inf" /\ y.k = "inf" -> NaN
      [] x.k = "inf" -> Inf(x.n * (IF y.n < 0 THEN -1 ELSE 1))
      [] y.k = "inf" -> Num(0, 1)
      [] y.n = 0 -> IF x.n = 0 THEN NaN ELSE Inf(Sign(x.n))
      [] y.n < 0 -> Num(-(x.n * y.d), x.d * (-y.n))
      [] OTHER -> Num(x.n * y.d, x.d * y.n)

Rows(s) == 1 .. Len(s)

\* Sum of s[lo..hi]; a NaN in the range makes the sum NaN.  The sum is
\* exact, so the order of the additions is immaterial; halving the range
\* keeps the evaluation shallow.
RECURSIVE WindowSum(_, _, _)
WindowSum(s, lo, hi) ==
    IF lo > hi THEN Num(0, 1)
    ELSE IF lo = hi THEN s[lo]
    ELSE LET mid == (lo + hi) \div 2
         IN Add(WindowSum(s, lo, mid), WindowSum(s, mid + 1, hi))

\* Series.rolling(w).mean(): min_periods is w, so a row is NaN until the
\* window holds w observations, none of them NaN.
RollingMean(s, w) ==
    [n \in Rows(s) |->
        IF n < w THEN NaN
        ELSE Div(WindowSum(s, n - w + 1, n), Num(w, 1))]

\* Series.shift(1) and Series.diff().
Shift(s) == [n \in Rows(s) |-> IF n = 1 THEN NaN ELSE s[n - 1]]
Diff(s) == [n \in Rows(s) |-> Sub(s[n], Shift(s)[n])]

\* Series.where(cond, 0): the cell where cond holds, 0 elsewhere; cond is
\* false on a NaN cell, so the NaN of row 0 becomes 0 as well.
WherePositive(s) ==
    [n \in Rows(s) |-> IF Gt(s[n], Num(0, 1)) THEN s[n] ELSE Num(0, 1)]
WhereNegative(s) ==
    [n \in Rows(s) |-> IF Lt(s[n], Num(0, 1)) THEN s[n] ELSE Num(0, 1)]

\* ---- cells of the form (a + b*sqrt(c))/d, d > 0, c >= 0 ----------------
SNaN == [k |-> "nan", a |-> 0, b |-> 0, c |-> 0, d |-> 1]
Surd(a, b, c, d) == [k |-> "num", a |-> a, b |-> b, c |-> c, d |-> d]

\* The sign of a + b*sqrt(c).
SurdSign(a, b, c) ==
    CASE b = 0 \/ c = 0 -> Sign(a)
      [] a >= 0 /\ b > 0 -> 1
      [] a <= 0 /\ b < 0 -> -1
      [] a > 0 -> Sign(a * a - b * b * c)   \* b < 0
      [] OTHER -> Sign(b * b * c - a * a)   \* a < 0 < b

\* x - y for two cells over the same radicand (or a rational one).
SDiffSign(x, y) ==
    SurdSign(x.a * y.d - y.a * x.d, x.b * y.d - y.b * x.d,
             IF x.b # 0 THEN x.c ELSE y.c)
SGe(x, y) == IsNum(x) /\ IsNum(y) /\ SDiffSign(x, y) >= 0
SEq(x, y) == IsNum(x) /\ IsNum(y) /\ SDiffSign(x, y) = 0

ToSurd(x) == IF IsNum(x) THEN Surd(x.n, 0, 0, x.d) ELSE SNaN

SAdd(x, y) ==
    IF ~IsNum(x) \/ ~IsNum(y) THEN SNaN
    ELSE Surd(x.a * y.d + y.a * x.d, x.b * y.d + y.b * x.d,
              IF x.b # 0 THEN x.c ELSE y.c, x.d * y.d)
SSub(x, y) ==
    IF ~IsNum(x) \/ ~IsNum(y) THEN SNaN
    ELSE Surd(x.a * y.d - y.a * x.d, x.b * y.d - y.b * x.d,
              IF x.b # 0 THEN x.c ELSE y.c, x.d * y.d)
STimes(x, m) == IF IsNum(x) THEN [x EXCEPT !.a = @ * m, !.b = @ * m] ELSE SNaN

\* Sum of the squares of s[lo..hi] (integer cells).
RECURSIVE WindowSumSq(_, _, _)
WindowSumSq(s, lo, hi) ==
    IF lo > hi THEN Num(0, 1)
    ELSE IF lo = hi THEN Mul(s[lo], s[lo])
    ELSE LET mid == (lo + hi) \div 2
         IN Add(WindowSumSq(s, lo, mid), WindowSumSq(s, mid + 1, hi))

\* Series.rolling(w).std(): the sample standard deviation (ddof = 1) of the
\* window, sqrt((w*Q - S*S) / (w*(w-1))) with S the sum and Q the sum of
\* squares; NaN until the window holds w observations.
RollingStd(s, w) ==
    [n \in Rows(s) |->
        IF n < w THEN SNaN
        ELSE LET S == WindowSum(s, n - w + 1, n)
                 Q == WindowSumSq(s, n - w + 1, n)
             IN IF ~IsNum(S) \/ ~IsNum(Q) THEN SNaN
                ELSE Surd(0, S.d * Q.d,
                          (w * Q.n * S.d * S.d - S.n * S.n * Q.d)
                              * Q.d * w * (w - 1),
                          S.d * Q.d * w * (w - 1))]

\* Window lengths and the RSI scale, as written in the source.
MA50Window == 50
MA200Window == 200
BollingerWindow == 20
RSIWindow == 14
Hundred == 100

AddColumn(df, name, s) ==
    [c \in DOMAIN df \cup {name} |-> IF c = name THEN s ELSE df[c]]

\* Series * Series, Series / Series and Series - scalar, row by row.
SeriesMul(s, t) == [n \in Rows(s) |-> Mul(s[n], t[n])]
SeriesDiv(s, t) == [n \in Rows(s) |-> Div(s[n], t[n])]
SeriesSubScalar(s, x) == [n \in Rows(s) |-> Sub(s[n], x)]

\* line 70
MarketCap(df) == SeriesMul(df["Open"], df["Volume"])
\* lines 82-83
MA50(df) == RollingMean(df["Open"], MA50Window)
MA200(df) == RollingMean(df["Open"], MA200Window)
\* lines 98-100
Returns(df) ==
    SeriesSubScalar(SeriesDiv(df["Close"], Shift(df["Close"])), Num(1, 1))
\* lines 138-140
UpperBand(df) ==
    LET mean == RollingMean(df["Close"], BollingerWindow)
        std == RollingStd(df["Close"], BollingerWindow)
    IN [n \in Rows(mean) |-> SAdd(ToSurd(mean[n]), STimes(std[n], 2))]
\* the lower band computed with the upper band's sign
LowerBandPlus(df) ==
    LET mean == RollingMean(df["Close"], BollingerWindow)
        std == RollingStd(df["Close"], BollingerWindow)
    IN [n \in Rows(mean) |-> SAdd(ToSurd(mean[n]), STimes(std[n], 2))]
\* lines 141-143
LowerBand(df) ==
    LET mean == RollingMean(df["Close"], BollingerWindow)
        std == RollingStd(df["Close"], BollingerWindow)
    IN [n \in Rows(mean) |-> SSub(ToSurd(mean[n]), STimes(std[n], 2))]
\* line 159
Gain(dl) == RollingMean(WherePositive(dl), RSIWindow)
\* line 160
Loss(dl) ==
    RollingMean([n \in Rows(dl) |-> Neg(WhereNegative(dl)[n])], RSIWindow)
\* rs = gain / loss with a division that gives NaN on a zero divisor
RSDivZeroIsNaN(g, l) == [n \in Rows(g) |-> DivZeroIsNaN(g[n], l[n])]
\* line 161
RS(g, l) == SeriesDiv(g, l)
\* line 162
RSI(r) ==
    [n \in Rows(r) |->
        Sub(Num(Hundred, 1),
            Div(Num(Hundred, 1), Add(Num(1, 1), r[n])))]

ComputeMarketCap ==
    /\ ipc = "market_cap"
    /\ stock_data' = AddColumn(stock_data, "MarketCap", MarketCap(stock_data))
    /\ ipc' = "moving_average"
    /\ UNCHANGED <<delta, gain, loss, rs, rsi, hvars>>

ComputeMovingAverage ==
    /\ ipc = "moving_average"
    /\ stock_data' =
          AddColumn(AddColumn(stock_data, "MA50", MA50(stock_data)),
                    "MA200", MA200(stock_data))
    /\ ipc' = "returns"
    /\ UNCHANGED <<delta, gain, loss, rs, rsi, hvars>>

ComputeReturns ==
    /\ ipc = "returns"
    /\ stock_data' = AddColumn(stock_data, "returns", Returns(stock_data))
    /\ ipc' = "bollinger"
    /\ UNCHANGED <<delta, gain, loss, rs, rsi, hvars>>

ComputeBollinger ==
    /\ ipc = "bollinger"
    /\ stock_data' =
          AddColumn(AddColumn(stock_data, "UpperBand", UpperBand(stock_data)),
                    "LowerBand", LowerBand(stock_data))
    /\ ipc' = "rsi"
    /\ UNCHANGED <<delta, gain, loss, rs, rsi, hvars>>

ComputeRSI ==
    /\ ipc = "rsi"
    /\ delta' = Diff(stock_data["Close"])
    /\ gain' = Gain(delta')
    /\ loss' = Loss(delta')
    /\ rs' = RS(gain', loss')
    /\ rsi' = RSI(rs')
    /\ ipc' = "done"
    /\ UNCHANGED <<stock_data, hvars>>

\* ---- the price series the indicator specifications start from ----------
MaxLen == 21
MaxLenMA == 201
MaxPrice == 2
Gaps == {0, 1}

Ints(s) == [n \in Rows(s) |-> Num(s[n], 1)]

\* A frame whose Open is Close + gap, with a constant Volume.
Frame(close, gap) ==
    [c \in {"Open", "Close", "Volume"} |->
        CASE c = "Open" -> Ints([n \in Rows(close) |-> close[n] + gap])
          [] c = "Close" -> Ints(close)
          [] OTHER -> Ints([n \in Rows(close) |-> 1000])]

\* Closes that hold a for i rows, then b up to row j, then c.
Steps(L, a, i, b, j, c) ==
    [n \in 1 .. L |-> IF n <= i THEN a ELSE IF n <= j THEN b ELSE c]

\* Closes that start at a and rise by slope each row.
Trend(L, a, slope) == [n \in 1 .. L |-> a + slope * (n - 1)]

IdleH ==
    /\ pc = [i \in Callers |-> "done"]
    /\ req = [i \in Callers |->
                [json |-> TRUE, ticker |-> TRUE, dates |-> TRUE,
                 empty |-> FALSE]]
    /\ ticker = [i \in Callers |-> FALSE]
    /\ plot = [i \in Callers |-> 0]
    /\ cols = [i \in Callers |-> {}]
    /\ zip = [i \in Callers |-> <<>>]
    /\ zipClosed = [i \in Callers |-> FALSE]
    /\ failed = [i \in Callers |-> "none"]
    /\ resp = [i \in Callers |-> NoResp]
    /\ crossed = [i \in Callers |-> FALSE]
    /\ figs = <<>>

StartI ==
    /\ delta = <<>>
    /\ gain = <<>>
    /\ loss = <<>>
    /\ rs = <<>>
    /\ rsi = <<>>
    /\ ipc = "market_cap"

InitInd ==
    /\ IdleH
    /\ StartI
    /\ \E L \in 0 .. MaxLen, gap \in Gaps :
         \E a \in 1 .. MaxPrice, b \in 1 .. MaxPrice, c \in 1 .. MaxPrice :
           \E i \in 0 .. L :
             \E j \in i .. L :
               stock_data = Frame(Steps(L, a, i, b, j, c), gap)

InitMA ==
    /\ IdleH
    /\ StartI
    /\ \E L \in 0 .. MaxLenMA, gap \in Gaps :
         \E a \in 1 .. MaxPrice, slope \in 0 .. 1 :
           stock_data = Frame(Trend(L, a, slope), gap)

NextInd ==
    \/ ComputeMarketCap
    \/ ComputeMovingAverage
    \/ ComputeReturns
    \/ ComputeBollinger
    \/ ComputeRSI

SpecInd == InitInd /\ [][NextInd]_vars

SpecMA == InitMA /\ [][NextInd]_vars


Init == InitH /\ IdleI

Next ==
    \E i \in Callers :
        \/ RequestJson(i)
        \/ GetTicker(i)
        \/ CheckDates(i)
        \/ Download(i)
        \/ Figure(i)
        \/ Compute(i)
        \/ Draw(i)
        \/ SaveFig(i)
        \/ Close(i)
        \/ WriteStr(i)
        \/ SendFile(i)
        \/ Raise(i)
        \/ Except(i)

Spec == Init /\ [][Next]_vars

----------------------------------------------------------------------------
(* Properties.                                                             *)

FiguresOf(i) == {k \in DOMAIN figs : figs[k].owner = i}

\* C1: when two invocations run concurrently, under every interleaving of
\* their plt.figure / plot / plt.savefig / plt.close steps no invocation
\* ever saves (into its archive) or closes a figure that the other
\* invocation opened or drew on.
C1_NoCrossTalk == \A i \in Callers : ~crossed[i]

\* C2: if a step of one of the seven render blocks fails, the caller gets
\* the error result and no archive bytes, neither the entries written so
\* far nor a complete archive.
C2_RenderFailureAborts ==
    \A i \in Callers :
        failed[i] \in InZip =>
            /\ resp[i].kind # "zip"
            /\ resp[i].body = <<>>
            /\ pc[i] = "done" => resp[i].status = 400 /\ resp[i].kind = "json"

C2_Witness ==
    \E i \in Callers :
        /\ pc[i] = "done"
        /\ failed[i] \in InZip
        /\ Len(zip[i]) >= 1
        /\ zipClosed[i]
        /\ resp[i].status = 400

\* C3: for a non-empty price series on which every render succeeds, the
\* returned archive holds exactly seven entries, named market_cap.png,
\* moving_average.png, volatility.png, stock_price.png, trading_volume.png,
\* bollinger_bands.png and rsi.png, pairwise distinct, each written once.
C3_SevenDistinctEntries ==
    \A i \in Callers :
        (~req[i].empty /\ resp[i].kind = "zip") =>
            LET body == resp[i].body
            IN /\ Len(body) = 7
               /\ {body[k] : k \in DOMAIN body} =
                     {"market_cap.png", "moving_average.png",
                      "volatility.png", "stock_price.png",
                      "trading_volume.png", "bollinger_bands.png",
                      "rsi.png"}
               /\ \A k, m \in DOMAIN body : body[k] = body[m] => k = m

C3_Witness ==
    \E i \in Callers :
        /\ ~req[i].empty
        /\ failed[i] = "none"
        /\ resp[i].status = 200
        /\ resp[i].kind = "zip"
        /\ Len(resp[i].body) = 7

\* C4: when the fetched price series is empty, the invocation fails before
\* any indicator is computed or rendered, and no bundle is produced.
C4_EmptySeriesRejected ==
    \A i \in Callers :
        req[i].empty =>
            /\ cols[i] \subseteq BaseColumns
            /\ FiguresOf(i) = {}
            /\ resp[i].kind # "zip"

\* C9: every exception raised inside the try body, from reading the request
\* body onward, ends in the except clause returning the JSON error with
\* status 400; the except clause itself never raises.
C9_EveryExceptionIs400 ==
    \A i \in Callers :
        (pc[i] = "done" /\ failed[i] # "none") =>
            resp[i].status = 400 /\ resp[i].kind = "json"

\* C10: within one invocation (the other one never reaching pyplot) at most
\* one of its figures is open at any step, and when it has returned, on the
\* success path or on the error path after a failed plot or savefig, none
\* of its figures remains open.
C10_FiguresClosed ==
    \A i \in Callers :
        (\A j \in Callers \ {i} : plot[j] = 0) =>
            /\ Cardinality(FiguresOf(i)) <= 1
            /\ (pc[i] = "done" /\ failed[i] \in {"none", "draw", "savefig"})
                  => FiguresOf(i) = {}

\* The mean of the Close cells of rows r-w+1 .. r (rows counted from 1).
CloseMean(r, w) ==
    Div(WindowSum(stock_data["Close"], r - w + 1, r), Num(w, 1))

MovingAveragesDone == ipc \in {"returns", "bollinger", "rsi", "done"}
BandsDone == ipc \in {"rsi", "done"}

\* C5: for k in {50, 200} and every row index n (from 0), ma_k[n] is
\* undefined when n < k-1 and otherwise equals the arithmetic mean of the
\* close values of rows n-k+1 .. n.
C5_MovingAverageOfClose ==
    MovingAveragesDone =>
        \A col \in {"MA50", "MA200"} :
            LET k == IF col = "MA50" THEN 50 ELSE 200
                ma == stock_data[col]
            IN \A r \in Rows(ma) :
                  IF r - 1 < k - 1
                  THEN ~IsNum(ma[r])
                  ELSE Eq(ma[r], CloseMean(r, k))

\* C6: at every row where RSI is defined, RSI is 100 exactly when the
\* trailing-14 average loss is 0 and the average gain is positive; when
\* both averages are 0 RSI is undefined; and a zero loss with a positive
\* gain never gives an undefined or out-of-range value.
C6_RSIAtZeroLoss ==
    ipc = "done" =>
        \A r \in Rows(rsi) :
            LET zeroLoss == Eq(loss[r], Num(0, 1))
                zeroGain == Eq(gain[r], Num(0, 1))
                posGain == Gt(gain[r], Num(0, 1))
            IN /\ IsNum(rsi[r]) =>
                     (Eq(rsi[r], Num(100, 1)) <=> (zeroLoss /\ posGain))
               /\ (zeroLoss /\ zeroGain) => rsi[r].k = "nan"
               /\ (zeroLoss /\ posGain) => IsNum(rsi[r])
               /\ IsNum(rsi[r]) =>
                     Le(Num(0, 1), rsi[r]) /\ Le(rsi[r], Num(100, 1))

C6_Witness ==
    /\ ipc = "done"
    /\ \E r \in Rows(rsi) :
          /\ Eq(loss[r], Num(0, 1))
          /\ Gt(gain[r], Num(0, 1))
          /\ Eq(rsi[r], Num(100, 1))
    /\ \E r \in Rows(rsi) :
          /\ Eq(loss[r], Num(0, 1))
          /\ Eq(gain[r], Num(0, 1))
          /\ rsi[r].k = "nan"
    /\ \E r \in Rows(rsi) :
          /\ Gt(rsi[r], Num(0, 1))
          /\ Lt(rsi[r], Num(100, 1))

\* C7: the trailing-14 gain and loss averages, and RSI, are undefined at
\* every row index n < 14 (rows 0 through 13).
C7_RSIUndefinedBelow14 ==
    ipc = "done" =>
        \A r \in Rows(rsi) :
            r - 1 < 14 =>
                ~IsNum(gain[r]) /\ ~IsNum(loss[r]) /\ ~IsNum(rsi[r])

ConstantWindow(r, w) ==
    \A m \in (r - w + 1) .. r :
        stock_data["Close"][m] = stock_data["Close"][r]

\* C8: for every row n >= 19, bollinger_upper[n] >= mean of close over
\* rows n-19 .. n >= bollinger_lower[n], and the two bands are equal if and
\* only if the 20 close values of the window are all the same.
C8_BollingerOrder ==
    BandsDone =>
        \A r \in Rows(stock_data["Close"]) :
            r - 1 >= 19 =>
                LET up == stock_data["UpperBand"][r]
                    lo == stock_data["LowerBand"][r]
                    mid == ToSurd(CloseMean(r, 20))
                IN /\ SGe(up, mid)
                   /\ SGe(mid, lo)
                   /\ SEq(up, lo) <=> ConstantWindow(r, 20)

C8_Witness ==
    /\ BandsDone
    /\ \E r \in Rows(stock_data["Close"]) :
          /\ r >= 20
          /\ ConstantWindow(r, 20)
          /\ SEq(stock_data["UpperBand"][r], stock_data["LowerBand"][r])
    /\ \E r \in Rows(stock_data["Close"]) :
          /\ r >= 20
          /\ ~ConstantWindow(r, 20)
          /\ ~SGe(stock_data["LowerBand"][r], stock_data["UpperBand"][r])

====
